---- MODULE Spec2Model ----
(***************************************************************************)
(* A model of the fixed-capacity, reference-counted object pool of         *)
(* src/src/pool.rs: Pool<T> (tail, free_list, the slot headers and the     *)
(* payloads that live in the caller's buffer) and the Arc<T> handles that  *)
(* retain on clone and release on drop.  Spec is the pool used through its *)
(* handles; SpecManual adds Arc::retain and Arc::release, SpecClear adds   *)
(* Pool::clear, SpecAnyBuf starts from a buffer that is not zeroed, and    *)
(* SpecConc and FairConc run retain, release and push_back_alloc on        *)
(* several threads, one load or compare_and_swap at a time.                *)
(***************************************************************************)
EXTENDS Integers, Sequences, FiniteSets, Bags, TLC

\* ------------------------------------------------------------------ sizes
\* mem::size_of::<SlotHeader>(): one AtomicUsize
HeaderSize == 8
\* mem::size_of::<T>() for the T = u32 of the tests
SizeOfT == 4
\* Pool::new: slot_size = size_of::<T>() + header_size
SlotSize == SizeOfT + HeaderSize

\* ----------------------------------------------------------------- bounds
\* how far past capacity the model lets tail run
MaxOverrun == 2
\* successful allocations in one behaviour
MaxAllocs == 4
\* handles outstanding at the same time
MaxHandles == 3
\* length the model lets the free list reach
MaxFree == 4
\* Arc::retain and Arc::release calls in one behaviour
MaxManual == 3
\* threads that each make one call on the pool
MaxThreads == 3

\* buffer lengths the caller may hand to Pool::new: one byte, one header and
\* no payload, one slot, two slots, two slots and a trailing header's worth,
\* three slots
BufferSizes ==
    {1, HeaderSize, SlotSize, 2 * SlotSize, 2 * SlotSize + HeaderSize, 3 * SlotSize}
\* payload values written through a handle
Values == {0, 1}
\* no index
NoIndex == -1

VARIABLES
    buffer_size,   \* Pool.buffer_size
    capacity,      \* Pool.capacity
    tail,          \* Pool.tail
    free_list,     \* Pool.free_list, front first
    ref_count,     \* SlotHeader.ref_count of every header that lies in the buffer
    payload,       \* the T of every slot
    handles,       \* bag of the outstanding Arc values
    nallocs,       \* number of successful allocations so far
    panicked,      \* the assert! of release has fired
    last,          \* the operation of the last step and what it returned
    prev,          \* the operation before it
    manual,        \* per slot, the Arc::retain and Arc::release calls made so far
    threads        \* the calls in progress on other threads, each with its position

vars == <<buffer_size, capacity, tail, free_list, ref_count, payload,
          handles, nallocs, panicked, last, prev, manual, threads>>

\* ---------------------------------------------------------------- helpers
\* indices whose header (offset i * slot_size, header_size bytes) is inside
\* a buffer of len bytes
HeaderIndices(len) == {i \in 0..(len \div HeaderSize) : i * SlotSize + HeaderSize <= len}

\* number of occurrences of i in the sequence s
Count(i, s) == Cardinality({k \in DOMAIN s : s[k] = i})

\* Arc { pool, index }; alloc is the serial number of the allocation the
\* handle stems from (a clone carries its original's)
Arc(index, alloc) == [index |-> index, alloc |-> alloc]

\* number of outstanding handles that carry index i
HandlesOn(i) == BagCardinality([h \in {g \in BagToSet(handles) : g.index = i} |-> handles[h]])

\* live_count that forgets the free list
live_count_tail == tail

\* Pool::live_count
live_count == tail - Len(free_list)

\* what a step did: the operation, whether it returned normally, the index
\* it returned or worked on, the source index of a copy, and LiveCount()
\* before it
Op(op, ok, index) ==
    [op |-> op, ok |-> ok, index |-> index, src |-> NoIndex, live |-> live_count]

\* ------------------------------------------------------------ Pool, pure
\* push_back_alloc with the capacity test off by one (>)
push_back_alloc_gt(t, cap) ==
    [tail |-> t + 1, ok |-> ~(t > cap), index |-> t]

\* Pool::push_back_alloc, one caller: the compare_and_swap is done before
\* the capacity test, and with no other writer it always succeeds
push_back_alloc(t, cap) ==
    [tail |-> t + 1, ok |-> ~(t >= cap), index |-> t]

\* retain that writes the old value back
retain_lost(rc, index) == rc

\* Pool::retain
retain(rc, index) == [rc EXCEPT ![index] = @ + 1]

\* release that frees the slot on every decrement
release_push_always(rc, fl, index) ==
    IF ~(rc[index] > 0)
    THEN [ref_count |-> rc, free_list |-> fl, panic |-> TRUE]
    ELSE [ref_count |-> [rc EXCEPT ![index] = @ - 1],
          free_list |-> Append(fl, index),
          panic |-> FALSE]

\* release that never frees the slot
release_no_push(rc, fl, index) ==
    IF ~(rc[index] > 0)
    THEN [ref_count |-> rc, free_list |-> fl, panic |-> TRUE]
    ELSE [ref_count |-> [rc EXCEPT ![index] = @ - 1],
          free_list |-> fl,
          panic |-> FALSE]

\* release that puts the freed index at the front of the free list
release_push_front(rc, fl, index) ==
    IF ~(rc[index] > 0)
    THEN [ref_count |-> rc, free_list |-> fl, panic |-> TRUE]
    ELSE [ref_count |-> [rc EXCEPT ![index] = @ - 1],
          free_list |-> IF rc[index] = 1 THEN <<index>> \o fl ELSE fl,
          panic |-> FALSE]

\* release without the assert!, the count held at 0 and freed on old <= 1
release_no_assert(rc, fl, index) ==
    [ref_count |-> [rc EXCEPT ![index] = IF @ > 0 THEN @ - 1 ELSE 0],
     free_list |-> IF rc[index] <= 1 THEN Append(fl, index) ELSE fl,
     panic |-> FALSE]

\* release that frees the slot when one reference is still left
release_early_free(rc, fl, index) ==
    IF ~(rc[index] > 0)
    THEN [ref_count |-> rc, free_list |-> fl, panic |-> TRUE]
    ELSE [ref_count |-> [rc EXCEPT ![index] = @ - 1],
          free_list |-> IF rc[index] = 2 THEN Append(fl, index) ELSE fl,
          panic |-> FALSE]

\* Pool::release: assert!(old > 0), decrement, push_back when old == 1
release(rc, fl, index) ==
    IF ~(rc[index] > 0)
    THEN [ref_count |-> rc, free_list |-> fl, panic |-> TRUE]
    ELSE [ref_count |-> [rc EXCEPT ![index] = @ - 1],
          free_list |-> IF rc[index] = 1 THEN Append(fl, index) ELSE fl,
          panic |-> FALSE]

\* claim_free_index that reads the front of the free list and leaves it there
claim_free_index_front(t, fl, rc, cap) ==
    IF fl # <<>>
    THEN [ok |-> TRUE, index |-> Head(fl), tail |-> t, free_list |-> fl,
          ref_count |-> retain(rc, Head(fl))]
    ELSE LET r == push_back_alloc(t, cap) IN
         [ok |-> r.ok, index |-> IF r.ok THEN r.index ELSE NoIndex,
          tail |-> r.tail, free_list |-> fl,
          ref_count |-> IF r.ok THEN retain(rc, r.index) ELSE rc]

\* claim_free_index that pops the back of the free list
claim_free_index_back(t, fl, rc, cap) ==
    IF fl # <<>>
    THEN [ok |-> TRUE, index |-> fl[Len(fl)], tail |-> t,
          free_list |-> SubSeq(fl, 1, Len(fl) - 1),
          ref_count |-> retain(rc, fl[Len(fl)])]
    ELSE LET r == push_back_alloc(t, cap) IN
         [ok |-> r.ok, index |-> IF r.ok THEN r.index ELSE NoIndex,
          tail |-> r.tail, free_list |-> fl,
          ref_count |-> IF r.ok THEN retain(rc, r.index) ELSE rc]

\* Pool::claim_free_index: pop_front of the free list, else push_back_alloc;
\* then retain
claim_free_index(t, fl, rc, cap) ==
    IF fl # <<>>
    THEN [ok |-> TRUE, index |-> Head(fl), tail |-> t, free_list |-> Tail(fl),
          ref_count |-> retain(rc, Head(fl))]
    ELSE LET r == push_back_alloc(t, cap) IN
         [ok |-> r.ok, index |-> IF r.ok THEN r.index ELSE NoIndex,
          tail |-> r.tail, free_list |-> fl,
          ref_count |-> IF r.ok THEN retain(rc, r.index) ELSE rc]

\* ptr::copy with from and to exchanged
ptr_copy_reversed(pl, from, to) == [pl EXCEPT ![from] = pl[to]]

\* ptr::copy(from, to, size_of::<T>()) of alloc_with_contents_of
ptr_copy(pl, from, to) == [pl EXCEPT ![to] = pl[from]]

\* Pool::internal_alloc
internal_alloc(t, fl, rc, cap) == claim_free_index(t, fl, rc, cap)

\* ------------------------------------------------------------------- Init
\* Pool::new over a zero-filled buffer of one of the lengths
Init ==
    /\ buffer_size \in BufferSizes
    /\ capacity = buffer_size \div SlotSize
    /\ tail = 0
    /\ free_list = <<>>
    /\ ref_count = [i \in HeaderIndices(buffer_size) |-> 0]
    /\ payload = [i \in 0..(capacity - 1) |-> 0]
    /\ handles = EmptyBag
    /\ nallocs = 0
    /\ panicked = FALSE
    /\ last = Op("new", TRUE, NoIndex)
    /\ prev = Op("new", TRUE, NoIndex)
    /\ manual = [i \in HeaderIndices(buffer_size) |-> [retains |-> 0, releases |-> 0]]
    /\ threads = <<>>

\* ---------------------------------------------------------------- actions
\* Pool::alloc
Alloc ==
    /\ ~panicked
    /\ LET r == internal_alloc(tail, free_list, ref_count, capacity) IN
       /\ r.ok => (nallocs < MaxAllocs /\ BagCardinality(handles) < MaxHandles)
       /\ ~r.ok => r.tail <= capacity + MaxOverrun
       /\ tail' = r.tail
       /\ free_list' = r.free_list
       /\ ref_count' = r.ref_count
       /\ handles' = IF r.ok THEN handles (+) SetToBag({Arc(r.index, nallocs + 1)})
                             ELSE handles
       /\ nallocs' = IF r.ok THEN nallocs + 1 ELSE nallocs
       /\ last' = Op("alloc", r.ok, r.index)
    /\ prev' = last
    /\ UNCHANGED <<manual, threads, buffer_size, capacity, payload, panicked>>

\* Pool::alloc_with_contents_of(other)
AllocCopy ==
    /\ ~panicked
    /\ \E other \in BagToSet(handles) :
       LET r == claim_free_index(tail, free_list, ref_count, capacity) IN
       /\ r.ok => (nallocs < MaxAllocs /\ BagCardinality(handles) < MaxHandles)
       /\ ~r.ok => r.tail <= capacity + MaxOverrun
       /\ tail' = r.tail
       /\ free_list' = r.free_list
       /\ ref_count' = r.ref_count
       /\ payload' = IF r.ok THEN ptr_copy(payload, other.index, r.index)
                             ELSE payload
       /\ handles' = IF r.ok THEN handles (+) SetToBag({Arc(r.index, nallocs + 1)})
                             ELSE handles
       /\ nallocs' = IF r.ok THEN nallocs + 1 ELSE nallocs
       /\ last' = [Op("alloc_copy", r.ok, r.index) EXCEPT !.src = other.index]
    /\ prev' = last
    /\ UNCHANGED <<manual, threads, buffer_size, capacity, panicked>>

\* Clone for Arc
Clone ==
    /\ ~panicked
    /\ BagCardinality(handles) < MaxHandles
    /\ \E h \in BagToSet(handles) :
       /\ ref_count' = retain(ref_count, h.index)
       /\ handles' = handles (+) SetToBag({h})
       /\ last' = Op("clone", TRUE, h.index)
    /\ prev' = last
    /\ UNCHANGED <<manual, threads, buffer_size, capacity, tail, free_list, payload, nallocs, panicked>>

\* Drop for Arc
Drop ==
    /\ ~panicked
    /\ \E h \in BagToSet(handles) :
       LET r == release(ref_count, free_list, h.index) IN
       /\ ref_count' = r.ref_count
       /\ Len(r.free_list) <= MaxFree
       /\ free_list' = r.free_list
       /\ panicked' = r.panic
       /\ handles' = handles (-) SetToBag({h})
       /\ last' = Op("drop", ~r.panic, h.index)
    /\ prev' = last
    /\ UNCHANGED <<manual, threads, buffer_size, capacity, tail, payload, nallocs>>

\* DerefMut for Arc: *h = v
Write ==
    /\ ~panicked
    /\ \E h \in BagToSet(handles), v \in Values :
       /\ payload[h.index] # v
       /\ payload' = [payload EXCEPT ![h.index] = v]
       /\ last' = Op("write", TRUE, h.index)
    /\ prev' = last
    /\ UNCHANGED <<manual, threads, buffer_size, capacity, tail, free_list, ref_count, handles,
                   nallocs, panicked>>

Next == Alloc \/ AllocCopy \/ Clone \/ Drop \/ Write

Spec == Init /\ [][Next]_vars

\* ------------------------------------------- the manual escape hatch
RECURSIVE SumCalls(_, _)
\* the Arc::retain and Arc::release calls made so far on the slots of S
SumCalls(m, S) ==
    IF S = {} THEN 0
    ELSE LET i == CHOOSE j \in S : TRUE IN
         m[i].retains + m[i].releases + SumCalls(m, S \ {i})

\* Arc::retain
ManualRetain ==
    /\ ~panicked
    /\ SumCalls(manual, DOMAIN manual) < MaxManual
    /\ \E h \in BagToSet(handles) :
       /\ ref_count' = retain(ref_count, h.index)
       /\ manual' = [manual EXCEPT ![h.index].retains = @ + 1]
       /\ last' = Op("retain", TRUE, h.index)
    /\ prev' = last
    /\ UNCHANGED <<threads, buffer_size, capacity, tail, free_list, payload,
                   handles, nallocs, panicked>>

\* Arc::release
ManualRelease ==
    /\ ~panicked
    /\ SumCalls(manual, DOMAIN manual) < MaxManual
    /\ \E h \in BagToSet(handles) :
       LET r == release(ref_count, free_list, h.index) IN
       /\ ref_count' = r.ref_count
       /\ Len(r.free_list) <= MaxFree
       /\ free_list' = r.free_list
       /\ panicked' = r.panic
       /\ manual' = [manual EXCEPT ![h.index].releases = @ + 1]
       /\ last' = Op("release", ~r.panic, h.index)
    /\ prev' = last
    /\ UNCHANGED <<threads, buffer_size, capacity, tail, payload, handles, nallocs>>

\* Pool::new over a zero-filled buffer of one slot
InitManual == Init /\ buffer_size = SlotSize

NextManual == Alloc \/ Clone \/ Drop \/ ManualRetain \/ ManualRelease

\* the pool and its handles with Arc::retain and Arc::release in use
SpecManual == InitManual /\ [][NextManual]_vars

\* ------------------------------------------------------------ Pool::clear
\* a zeroing loop that stops one slot short of the end
zero_fill_short(mem) ==
    [i \in DOMAIN mem |-> IF \A j \in DOMAIN mem : j <= i THEN mem[i] ELSE 0]

\* the loop of Pool::clear: every byte from buffer to buffer + buffer_size
\* becomes 0
zero_fill(mem) == [i \in DOMAIN mem |-> 0]

\* Pool::clear
Clear ==
    /\ ~panicked
    /\ ref_count' = zero_fill(ref_count)
    /\ payload' = zero_fill(payload)
    /\ last' = Op("clear", TRUE, NoIndex)
    /\ prev' = last
    /\ UNCHANGED <<manual, threads, buffer_size, capacity, tail, free_list,
                   handles, nallocs, panicked>>

\* Pool::new over a zero-filled buffer of one slot
InitClear == Init /\ buffer_size = SlotSize

NextClear == Next \/ Clear

\* the pool and its handles with Pool::clear in use
SpecClear == InitClear /\ [][NextClear]_vars

\* ------------------------------------------- a buffer that is not zeroed
\* what a header word of the caller's buffer may hold when Pool::new gets it
HeaderWords == {0, 1}

\* Pool::new over a buffer of one or two slots with contents of the
\* caller's: new stores the pointer and the sizes and writes to no byte
InitAny ==
    /\ buffer_size \in {SlotSize, 2 * SlotSize}
    /\ capacity = buffer_size \div SlotSize
    /\ tail = 0
    /\ free_list = <<>>
    /\ ref_count \in [HeaderIndices(buffer_size) -> HeaderWords]
    /\ payload \in [0..(capacity - 1) -> Values]
    /\ handles = EmptyBag
    /\ nallocs = 0
    /\ panicked = FALSE
    /\ last = Op("new", TRUE, NoIndex)
    /\ prev = Op("new", TRUE, NoIndex)
    /\ manual = [i \in HeaderIndices(buffer_size) |-> [retains |-> 0, releases |-> 0]]
    /\ threads = <<>>

\* the pool and its handles over any buffer
SpecAnyBuf == InitAny /\ [][Next]_vars

\* ------------------------------------------------- calls on several threads
\* Each thread makes one call of Pool::retain(0), Pool::release(0) or
\* Pool::push_back_alloc(); a load and a compare_and_swap are one step each.
Threads == 1..MaxThreads
Calls == {"retain", "release", "bump"}
\* ref counts slot 0 starts with, one unit for each outstanding handle
StartCounts == {1, 2}

\* a compare_and_swap that stores without comparing
cas_store(cur, old, new) == [mem |-> new, swap |-> old]

\* AtomicUsize::compare_and_swap(old, new): the value left in memory and the
\* value returned
cas(cur, old, new) == [mem |-> IF cur = old THEN new ELSE cur, swap |-> cur]

\* push_back_alloc that does not look at what the compare_and_swap returned
bump_exit_unchecked(old_tail, swap, cap) ==
    IF old_tail >= cap THEN "err" ELSE "ok"

\* push_back_alloc that goes round again when the buffer is overrun
bump_exit_retry(old_tail, swap, cap) ==
    IF old_tail < cap /\ swap = old_tail THEN "ok" ELSE "load"

\* the exits of the loop of push_back_alloc after the compare_and_swap
bump_exit(old_tail, swap, cap) ==
    IF old_tail >= cap THEN "err"
    ELSE IF swap = old_tail THEN "ok"
    ELSE "load"

\* a thread at the top of its call
Thread(call) ==
    [call |-> call, pc |-> "load", index |-> 0, old |-> 0, is_free |-> FALSE,
     ret |-> "none"]

\* slot 0 is allocated and held by one or two handles; the threads are
\* about to make their calls
InitConc ==
    /\ buffer_size \in {2 * SlotSize, 3 * SlotSize}
    /\ capacity = buffer_size \div SlotSize
    /\ tail = 1
    /\ free_list = <<>>
    /\ \E c \in StartCounts :
          /\ ref_count = [i \in HeaderIndices(buffer_size) |-> IF i = 0 THEN c ELSE 0]
          /\ handles = [h \in {Arc(0, 1)} |-> c]
    /\ payload = [i \in 0..(capacity - 1) |-> 0]
    /\ nallocs = 1
    /\ panicked = FALSE
    /\ last = Op("new", TRUE, NoIndex)
    /\ prev = Op("new", TRUE, NoIndex)
    /\ manual = [i \in HeaderIndices(buffer_size) |-> [retains |-> 0, releases |-> 0]]
    /\ threads \in [Threads -> {Thread(c) : c \in Calls}]

seqVars == <<buffer_size, capacity, payload, handles, nallocs, last, prev, manual>>

\* push_back_alloc: let old_tail = self.tail.load(..)
BumpLoad(t) ==
    /\ threads[t].call = "bump" /\ threads[t].pc = "load"
    /\ threads' = [threads EXCEPT ![t].old = tail, ![t].pc = "cas"]
    /\ UNCHANGED <<seqVars, tail, ref_count, free_list, panicked>>

\* push_back_alloc: the compare_and_swap on tail and the two returns
BumpCas(t) ==
    /\ threads[t].call = "bump" /\ threads[t].pc = "cas"
    /\ LET old_tail == threads[t].old
           r == cas(tail, old_tail, old_tail + 1)
           exit == bump_exit(old_tail, r.swap, capacity) IN
       /\ tail' = r.mem
       /\ threads' = [threads EXCEPT ![t].pc = IF exit = "load" THEN "load" ELSE "done",
                                     ![t].ret = IF exit = "load" THEN "none" ELSE exit]
    /\ UNCHANGED <<seqVars, ref_count, free_list, panicked>>

\* retain: let old = h.ref_count.load(..)
RetainLoad(t) ==
    /\ threads[t].call = "retain" /\ threads[t].pc = "load"
    /\ threads' = [threads EXCEPT ![t].old = ref_count[threads[t].index], ![t].pc = "cas"]
    /\ UNCHANGED <<seqVars, tail, ref_count, free_list, panicked>>

\* retain: the compare_and_swap(old, old + 1) and the break
RetainCas(t) ==
    /\ threads[t].call = "retain" /\ threads[t].pc = "cas"
    /\ LET i == threads[t].index
           old == threads[t].old
           r == cas(ref_count[i], old, old + 1) IN
       /\ ref_count' = [ref_count EXCEPT ![i] = r.mem]
       /\ threads' = [threads EXCEPT ![t].pc = IF r.swap = old THEN "done" ELSE "load",
                                     ![t].ret = IF r.swap = old THEN "ok" ELSE "none"]
    /\ UNCHANGED <<seqVars, tail, free_list, panicked>>

\* release: let old = h.ref_count.load(..); assert!(old > 0, ..), which
\* ends the thread that fails it
ReleaseLoad(t) ==
    /\ threads[t].call = "release" /\ threads[t].pc = "load"
    /\ LET old == ref_count[threads[t].index] IN
       IF old > 0
       THEN /\ threads' = [threads EXCEPT ![t].old = old, ![t].pc = "cas"]
            /\ UNCHANGED panicked
       ELSE /\ threads' = [threads EXCEPT ![t].old = old, ![t].pc = "done",
                                          ![t].ret = "panic"]
            /\ panicked' = TRUE
    /\ UNCHANGED <<seqVars, tail, ref_count, free_list>>

\* release: the compare_and_swap(old, old - 1), is_free and the break
ReleaseCas(t) ==
    /\ threads[t].call = "release" /\ threads[t].pc = "cas"
    /\ LET i == threads[t].index
           old == threads[t].old
           r == cas(ref_count[i], old, old - 1) IN
       /\ ref_count' = [ref_count EXCEPT ![i] = r.mem]
       /\ threads' =
             IF r.swap = old
             THEN [threads EXCEPT ![t].is_free = (old = 1),
                                  ![t].pc = IF old = 1 THEN "push" ELSE "done",
                                  ![t].ret = IF old = 1 THEN "none" ELSE "ok"]
             ELSE [threads EXCEPT ![t].pc = "load"]
    /\ UNCHANGED <<seqVars, tail, free_list, panicked>>

\* release: if is_free { self.free_list.push_back(index) }. The list is not
\* synchronized: a push_back that runs while another thread is in its own
\* is a data race, and the element may be lost
ReleasePush(t) ==
    /\ threads[t].call = "release" /\ threads[t].pc = "push"
    /\ \/ free_list' = Append(free_list, threads[t].index)
       \/ /\ \E u \in Threads \ {t} : threads[u].pc = "push"
          /\ free_list' = free_list
    /\ threads' = [threads EXCEPT ![t].pc = "done", ![t].ret = "ok"]
    /\ UNCHANGED <<seqVars, tail, ref_count, panicked>>

Step(t) ==
    \/ BumpLoad(t) \/ BumpCas(t)
    \/ RetainLoad(t) \/ RetainCas(t)
    \/ ReleaseLoad(t) \/ ReleaseCas(t) \/ ReleasePush(t)

NextConc == \E t \in Threads : Step(t)

\* the calls of the threads, interleaved step by step
SpecConc == InitConc /\ [][NextConc]_vars

\* the same, every thread that can take a step taking it in the end
FairConc == SpecConc /\ \A t \in Threads : WF_vars(Step(t))

\* every call has returned or ended in the assertion
AllReturned == \A t \in Threads : threads[t].pc = "done"

\* the threads that called op
Callers(op) == {t \in Threads : threads[t].call = op}

\* the two allocating operations
AllocOps == {"alloc", "alloc_copy"}

\* ----------------------------------------------------------------- claims
\* C1: for every index i < tail, a ref count of 0 means i is in the free
\* list exactly once and a ref count >= 1 means i is not in the free list
\* (stated for the indices whose header lies in the buffer).
C1_FreeListMatchesRefCount ==
    \A i \in (0..(tail - 1)) \cap DOMAIN ref_count :
        /\ ref_count[i] = 0 => Count(i, free_list) = 1
        /\ ref_count[i] >= 1 => Count(i, free_list) = 0

\* C2: LiveCount() = tail - |free_list| is the number of slots with a ref
\* count >= 1, which are the slots some outstanding handle reaches.
C2_LiveCountIsLiveSlots ==
    /\ live_count = Cardinality({i \in DOMAIN ref_count : ref_count[i] >= 1})
    /\ live_count = Cardinality({h.index : h \in BagToSet(handles)})

\* C3: tail never exceeds capacity.
C3_TailWithinCapacity == tail <= capacity

\* C4: an allocation that fails with OutOfMemory leaves tail, the free list
\* and every ref count as they were.
C4_FailedAllocConsumesNothing ==
    [][(last'.op \in AllocOps /\ ~last'.ok) =>
           (tail' = tail /\ free_list' = free_list /\ ref_count' = ref_count)]_vars

\* C5: a successful allocation returns an index whose slot had ref count 0
\* and no outstanding handle, so outstanding handles that share an index
\* stem from the same allocation.
C5_ExclusiveAcquisition ==
    /\ [](\A g, h \in BagToSet(handles) : g.index = h.index => g.alloc = h.alloc)
    /\ [][(last'.op \in AllocOps /\ last'.ok) =>
              (ref_count[last'.index] = 0 /\ HandlesOn(last'.index) = 0)]_vars

\* a recycled slot is handed out while a handle of another allocation is
\* outstanding
C5_Witness ==
    /\ last.op \in AllocOps /\ last.ok
    /\ prev.op = "drop" /\ prev.index = last.index
    /\ Cardinality({h.alloc : h \in BagToSet(handles)}) >= 2

\* C6: each slot's ref count is the number of outstanding handles that
\* carry its index.
C6_RefCountIsHandleCount ==
    \A i \in DOMAIN ref_count : ref_count[i] = HandlesOn(i)

\* a slot with an original and a clone outstanding next to another live slot
C6_Witness ==
    \E i, j \in DOMAIN ref_count :
        i # j /\ HandlesOn(i) = 2 /\ ref_count[i] = 2 /\ HandlesOn(j) = 1

\* C7: every release of a handle takes one off the slot's ref count; the
\* index is appended to the free list by the release that takes the count
\* from 1 to 0, the release of the last outstanding handle, and by no other,
\* so it is in the free list once after it and not at all before it.
C7_FreedAtFinalRelease ==
    [][(last'.op = "drop" /\ last'.ok) =>
          LET i == last'.index IN
          /\ ref_count[i] >= 1
          /\ ref_count'[i] = ref_count[i] - 1
          /\ Count(i, free_list) = 0
          /\ IF HandlesOn(i) = 1
             THEN ref_count'[i] = 0 /\ free_list' = Append(free_list, i)
             ELSE ref_count'[i] >= 1 /\ free_list' = free_list]_vars

\* a handle and its clone have both been released, the second release
\* freeing the slot
C7_Witness ==
    /\ last.op = "drop" /\ prev.op = "drop" /\ last.index = prev.index
    /\ ref_count[last.index] = 0
    /\ Count(last.index, free_list) = 1
    /\ free_list[Len(free_list)] = last.index

\* C8: with a non-empty free list an allocation succeeds, returns the front
\* of the free list, removes it and leaves tail alone; tail moves only when
\* the free list is empty.
C8_ReuseBeforeGrowth ==
    [][/\ (last'.op \in AllocOps /\ free_list # <<>>) =>
             /\ last'.ok
             /\ last'.index = Head(free_list)
             /\ free_list' = Tail(free_list)
             /\ tail' = tail
       /\ tail' # tail => free_list = <<>>]_vars

\* an allocation has taken the front of a free list of two while virgin
\* space was left
C8_Witness ==
    /\ last.op = "alloc" /\ last.ok
    /\ Len(free_list) = 1 /\ free_list[1] # last.index
    /\ last.index < tail /\ tail < capacity

\* C9: Allocate fails with OutOfMemory exactly when the free list is empty
\* and tail >= capacity; otherwise it returns an index < capacity.
C9_OomIffExhausted ==
    [][last'.op = "alloc" =>
          /\ ~last'.ok <=> (free_list = <<>> /\ tail >= capacity)
          /\ last'.ok => last'.index \in 0..(capacity - 1)]_vars

\* the first Allocate on a buffer smaller than one slot has failed
C9_Witness ==
    /\ last.op = "alloc" /\ ~last.ok /\ prev.op = "new"
    /\ buffer_size < SlotSize /\ handles = EmptyBag

\* C10: after a failed allocation, the release of the last reference of a
\* slot i makes the next allocation succeed with index i.
C10_OomRecoverable ==
    [][(/\ prev.op \in AllocOps /\ ~prev.ok
        /\ last.op = "drop" /\ last.ok /\ ref_count[last.index] = 0
        /\ last'.op \in AllocOps) =>
           (last'.ok /\ last'.index = last.index)]_vars

\* an allocation has succeeded on the slot released just before it, in a
\* pool whose tail bump had failed (tail is past capacity)
C10_Witness ==
    /\ last.op = "alloc" /\ last.ok
    /\ prev.op = "drop" /\ prev.index = last.index
    /\ tail > capacity /\ capacity > 0

\* C14: a successful AllocateCopy returns a slot other than the source's,
\* with the source's payload and ref count 1, and leaves the source's ref
\* count and every other payload alone; a failed one copies nothing.
C14_CopyIsFaithful ==
    [][last'.op = "alloc_copy" =>
          IF last'.ok
          THEN LET i == last'.index
                   s == last'.src IN
               /\ i # s
               /\ payload'[i] = payload[s]
               /\ ref_count'[i] = 1
               /\ ref_count'[s] = ref_count[s]
               /\ \A j \in DOMAIN payload \ {i} : payload'[j] = payload[j]
          ELSE payload' = payload]_vars

\* a copy made right after 1 was written to its source holds 1, in a slot
\* below the source's
C14_Witness ==
    /\ last.op = "alloc_copy" /\ last.ok
    /\ prev.op = "write" /\ prev.index = last.src
    /\ payload[last.src] = 1 /\ payload[last.index] = 1
    /\ last.index < last.src

\* C17: an allocation followed by the release of the returned index to ref
\* count 0 brings LiveCount() back to its value before the allocation.
C17_LiveCountRestored ==
    (/\ prev.op \in AllocOps /\ prev.ok
     /\ last.op = "drop" /\ last.ok /\ last.index = prev.index
     /\ ref_count[last.index] = 0) => live_count = prev.live

\* a slot taken from the free list while another slot was live has been
\* released again
C17_Witness ==
    /\ prev.op = "alloc" /\ prev.ok /\ prev.index < tail - 1
    /\ last.op = "drop" /\ last.ok /\ last.index = prev.index
    /\ ref_count[last.index] = 0
    /\ prev.live >= 1 /\ live_count = prev.live

\* C18 as stated: after Allocate returns i and i is released to ref count
\* 0, i is the front element of the free list.
C18_ReleasedIsHead ==
    (/\ prev.op = "alloc" /\ prev.ok
     /\ last.op = "drop" /\ last.ok /\ last.index = prev.index
     /\ ref_count[last.index] = 0) => Head(free_list) = last.index

\* C18 amended: after Allocate returns i and i is released to ref count 0,
\* i is the back element of the free list, and the front element exactly
\* when the free list holds nothing else.
C18_ReleasedIsBack ==
    (/\ prev.op = "alloc" /\ prev.ok
     /\ last.op = "drop" /\ last.ok /\ last.index = prev.index
     /\ ref_count[last.index] = 0) =>
        /\ free_list # <<>>
        /\ free_list[Len(free_list)] = last.index
        /\ Head(free_list) = last.index <=> Len(free_list) = 1

\* the released index stands behind another free index
C18_Witness ==
    /\ prev.op = "alloc" /\ prev.ok
    /\ last.op = "drop" /\ last.ok /\ last.index = prev.index
    /\ ref_count[last.index] = 0
    /\ Len(free_list) = 2 /\ free_list[2] = last.index

\* C11: a release (manual, or by a handle's destruction) of a slot whose ref
\* count is 0 ends in the assertion and leaves the ref count, tail and the
\* free list as they were.
C11_ReleaseOfZeroIsFatal ==
    [][(last'.op \in {"release", "drop"} /\ ref_count[last'.index] = 0) =>
           /\ panicked' /\ ~last'.ok
           /\ ref_count' = ref_count
           /\ tail' = tail
           /\ free_list' = free_list]_vars

\* a second Arc::release on a freed slot has hit the assertion and the
\* index is in the free list once
C11_Witness ==
    /\ panicked /\ last.op = "release" /\ ~last.ok
    /\ prev.op = "release" /\ prev.index = last.index
    /\ ref_count[last.index] = 0
    /\ Count(last.index, free_list) = 1

\* C16 as stated: a slot with more manual retains than manual releases has,
\* once all its handles are destroyed, a ref count >= 1 and is not in the
\* free list; a slot with more manual releases than manual retains hits the
\* assertion before all its handles are destroyed.
C16_ManualMustBalance ==
    \A i \in DOMAIN manual :
        /\ (~panicked /\ HandlesOn(i) = 0 /\ manual[i].retains > manual[i].releases) =>
               (ref_count[i] >= 1 /\ Count(i, free_list) = 0)
        /\ (HandlesOn(i) = 0 /\ manual[i].releases > manual[i].retains) =>
               (panicked /\ last.index = i)

\* C16 amended: a slot with more manual retains than manual releases has,
\* once all its handles are destroyed, a ref count >= 1, and while the
\* surplus lasts no release or destruction adds its index to the free list
\* (where an earlier release to 0 may have left it); a slot with more
\* manual releases than manual retains hits the assertion before all its
\* handles are destroyed.
C16_ManualSurplusLeaks ==
    /\ [](\A i \in DOMAIN manual :
            /\ (~panicked /\ HandlesOn(i) = 0
                   /\ manual[i].retains > manual[i].releases) => ref_count[i] >= 1
            /\ (HandlesOn(i) = 0 /\ manual[i].releases > manual[i].retains) =>
                   (panicked /\ last.index = i))
    /\ [][\A i \in DOMAIN manual :
            manual[i].retains > manual[i].releases =>
                Count(i, free_list') <= Count(i, free_list)]_vars

\* a slot retained once by hand and never released by hand is left with
\* ref count 1 and out of the free list after its handle and the clone of it
\* were destroyed
C16_Witness ==
    /\ ~panicked /\ last.op = "drop" /\ prev.op = "drop"
    /\ HandlesOn(last.index) = 0
    /\ manual[last.index] = [retains |-> 1, releases |-> 0]
    /\ ref_count[last.index] = 1
    /\ Count(last.index, free_list) = 0

C19_FreshRefCountIsOne ==
    [][(last'.op \in AllocOps /\ last'.ok) => ref_count'[last'.index] = 1]_vars

\* the releases that set is_free
Marking == {t \in Callers("release") : threads[t].is_free}

\* C12: no two threads that bump tail concurrently are returned the same
\* index, and every returned index is < capacity.
C12_OneClaimantPerIndex ==
    \A t \in Callers("bump") :
        threads[t].ret = "ok" =>
            /\ threads[t].old < capacity
            /\ \A u \in Callers("bump") \ {t} :
                   threads[u].ret = "ok" => threads[u].old # threads[t].old

\* two threads have each won an index and a third was told OOM
C12_Witness ==
    /\ AllReturned /\ Callers("bump") = Threads
    /\ Cardinality({threads[t].old : t \in {u \in Threads : threads[u].ret = "ok"}}) = 2
    /\ \E t \in Threads : threads[t].ret = "err"

\* C13 as stated: when all the retains and releases of slot 0 have returned
\* and none saw the count at 0, the count is its initial value + R - S and
\* one release, no more, has marked the slot as free (none if the count
\* never went from 1 to 0).
C13_ExactlyOneFrees ==
    (AllReturned /\ ~panicked) =>
        /\ ref_count[0] = BagCardinality(handles)
                            + Cardinality(Callers("retain"))
                            - Cardinality(Callers("release"))
        /\ Cardinality(Marking) <= 1
        /\ ref_count[0] = 0 => Cardinality(Marking) = 1

\* C13 amended: the count is its initial value + R - S; the releases that
\* mark the slot as free are those whose successful swap went from 1 to 0:
\* at least one when the count ends at 0, and at most R + 1, a retain being
\* needed to raise the count from 0 before it can go from 1 to 0 again.
C13_NoLostUpdate ==
    /\ \A t \in Callers("release") :
           (threads[t].pc \in {"push", "done"} /\ threads[t].ret # "panic") =>
               (threads[t].is_free <=> threads[t].old = 1)
    /\ (AllReturned /\ ~panicked) =>
        /\ ref_count[0] = BagCardinality(handles)
                            + Cardinality(Callers("retain"))
                            - Cardinality(Callers("release"))
        /\ Cardinality(Marking) <= Cardinality(Callers("retain")) + 1
        /\ ref_count[0] = 0 => Cardinality(Marking) >= 1

\* a retain between two releases: both releases took the count from 1 to 0
\* and marked the slot as free
C13_Witness ==
    /\ AllReturned /\ ~panicked
    /\ Cardinality(Callers("retain")) = 1 /\ Cardinality(Callers("release")) = 2
    /\ Cardinality(Marking) = 2
    /\ ref_count[0] = 0

\* C20: every call returns in the end: a value, OOM or the assertion; and a
\* tail bump that has read tail >= capacity returns OOM from its
\* compare_and_swap step, not going round the loop again.
C20_EveryCallReturns ==
    /\ <>AllReturned
    /\ [][\A t \in Threads :
            (/\ threads[t].call = "bump" /\ threads[t].pc = "cas"
             /\ threads[t].old >= capacity
             /\ threads'[t] # threads[t]) =>
                (threads'[t].pc = "done" /\ threads'[t].ret = "err")]_vars

\* all calls have returned: a bump with an index, a bump with OOM after
\* tail had run past capacity, and a release
C20_Witness ==
    /\ AllReturned /\ tail > capacity
    /\ \E t \in Callers("bump") : threads[t].ret = "ok"
    /\ \E t \in Callers("bump") : threads[t].ret = "err" /\ threads[t].old >= capacity
    /\ \E t \in Callers("release") : threads[t].ret = "ok"
====
